---- MODULE Spec2Model ----
(***************************************************************************)
(* Model of the weight-loss assistant chat backend:                        *)
(*   - the food-intent classifier of DoubaoImageClient                     *)
(*     (detectFoodKeywords, extractFoodDescription),                       *)
(*   - the orchestrator DoubaoClient.weightLossChat with its two upstream  *)
(*     calls (chatCompletion, generateFoodImage),                          *)
(*   - the route handler POST /api/chat.                                   *)
(*                                                                         *)
(* Text is a sequence of characters.  A character is written by an ASCII   *)
(* name:  "xiang" = U+60F3, "chi" = U+5403, "le" = U+4E86, "hao" = U+597D, *)
(* "cha" = U+8336 (tea), "comma" = U+FF0C (one of the four terminators of  *)
(* the extraction rules), "sp" = space, "nl" = line feed, and the Latin    *)
(* letters "e", "a", "t", "E", "x".  The sample sentence of the English    *)
(* trigger adds "I", "w", "n", "o" and "pi" = U+62AB, "sa" = U+8428        *)
(* (together: pizza).                                                      *)
(***************************************************************************)
EXTENDS Integers, Sequences, FiniteSets, TLC

VARIABLES
    apiKey,               \* DOUBAO_API_KEY as read by both client constructors
    body,                 \* what request.json() yields for the incoming POST
    pc,                   \* position of the request: received, awaitChat, awaitImage, done
    conversationHistory,  \* the array handed to weightLossChat
    messages,             \* the message list sent to chatCompletion
    chatCalls,            \* calls of chatCompletion
    chatFetches,          \* network requests to /chat/completions
    imageCalls,           \* calls of generateFoodImage
    imageFetches,         \* network requests to /images/generations
    chatOutcome,          \* how the completion call ended
    imageOutcome,         \* how the image call ended
    textContent,          \* the reply text held while the image call runs
    foodDescription,      \* the description handed to generateFoodImage
    result,               \* what weightLossChat returned (or that it threw)
    response,             \* the HTTP response of the route
    text,                 \* classifier input under test
    detected,             \* result of detectFoodKeywords(text)
    extracted,            \* result of extractFoodDescription(text)
    invPc,                \* position of a direct call of one of the two invokers
    invReturn,            \* what that call returned, or that it threw
    currentRole,          \* chat UI: the selected role
    isLoading,            \* chat UI: a send is under way
    input,                \* chat UI: the text of the input box
    allRoleMessages,      \* chat UI: the conversation of each role
    pending               \* chat UI: the /api/chat requests in flight

vars == << apiKey, body, pc, conversationHistory, messages, chatCalls,
           chatFetches, imageCalls, imageFetches, chatOutcome, imageOutcome,
           textContent, foodDescription, result, response,
           text, detected, extracted, invPc, invReturn,
           currentRole, isLoading, input, allRoleMessages, pending >>

routeVars == << apiKey, body, pc, conversationHistory, messages, chatCalls,
                chatFetches, imageCalls, imageFetches, chatOutcome,
                imageOutcome, textContent, foodDescription, result, response >>

classifierVars == << text, detected, extracted >>

invokerVars == << invPc, invReturn >>

uiVars == << currentRole, isLoading, input, allRoleMessages, pending >>

-----------------------------------------------------------------------------
(* Bounds *)

MaxLen == 3        \* longest classifier input
MaxMsgLen == 2     \* longest user message of a chat turn
MaxHist == 2       \* longest conversation history of a chat turn
MaxSends == 2      \* sends started in the chat UI

-----------------------------------------------------------------------------
(* Characters and strings *)

Alphabet == {"xiang", "chi", "le", "hao", "cha", "comma", "sp", "nl",
             "e", "a", "t", "E", "x"}

MsgAlphabet == {"xiang", "chi", "cha", "sp", "x"}

RECURSIVE SeqsUpTo(_, _)
SeqsUpTo(S, n) ==
    IF n = 0 THEN {<< >>}
    ELSE LET shorter == SeqsUpTo(S, n - 1)
         IN  shorter \cup {Append(s, c) : s \in shorter, c \in S}

Min(S) == CHOOSE m \in S : \A n \in S : m <= n

\* String.prototype.toLowerCase, one character
toLowerCaseChar(c) == IF c = "E" THEN "e" ELSE IF c = "I" THEN "i" ELSE c

toLowerCase(s) == [i \in 1..Len(s) |-> toLowerCaseChar(s[i])]

\* String.prototype.includes
includes(s, sub) ==
    \E i \in 1..(Len(s) - Len(sub) + 1) : SubSeq(s, i, i + Len(sub) - 1) = sub

\* white space as String.prototype.trim sees it
IsWhiteSpace(c) == c \in {"sp", "nl"}

\* String.prototype.trim
trim(s) ==
    LET keep == {i \in 1..Len(s) : ~IsWhiteSpace(s[i])}
    IN  IF keep = {} THEN << >>
        ELSE SubSeq(s, Min(keep), CHOOSE m \in keep : \A n \in keep : n <= m)

\* a JavaScript string is truthy iff it is not empty
Truthy(s) == s # << >>

-----------------------------------------------------------------------------
(* Food-intent classifier *)

\* the members of the keyword list that can be written over Alphabet and
\* the characters of SampleTexts, in list order
foodKeywords ==
    << <<"pi", "sa">>, <<"cha">>, <<"t", "e", "a">>,
       <<"chi">>, <<"e", "a", "t">>, <<"xiang", "chi">>,
       <<"w", "a", "n", "t", "sp", "t", "o", "sp", "e", "a", "t">> >>

detectFoodKeywords(s) ==
    LET lowerText == toLowerCase(s)
    IN  \E k \in 1..Len(foodKeywords) :
            includes(lowerText, toLowerCase(foodKeywords[k]))

\* "." of a regular expression without the s flag
IsDot(c) == c # "nl"

\* the class of the four full-width terminators
IsTerminator(c) == c = "comma"

eatPatternsEnglish ==
    << [trigger |-> <<"e", "a", "t">>,  capture |-> "after"],
       [trigger |-> <<"xiang", "chi">>, capture |-> "after"],
       [trigger |-> <<"chi", "le">>,    capture |-> "after"],
       [trigger |-> <<"chi">>,          capture |-> "after"],
       [trigger |-> <<"hao", "chi">>,   capture |-> "before"],
       [trigger |-> <<"xiang", "chi">>, capture |-> "before"] >>

\* the rules, in list order: the trigger and the side the capture lies on
eatPatterns ==
    << [trigger |-> <<"xiang", "chi">>, capture |-> "after"],
       [trigger |-> <<"chi", "le">>,    capture |-> "after"],
       [trigger |-> <<"chi">>,          capture |-> "after"],
       [trigger |-> <<"hao", "chi">>,   capture |-> "before"],
       [trigger |-> <<"xiang", "chi">>, capture |-> "before"] >>

At(s, i, sub) ==
    /\ i >= 1
    /\ i + Len(sub) - 1 <= Len(s)
    /\ SubSeq(s, i, i + Len(sub) - 1) = sub

AllDot(s, from, to) == \A j \in from..to : IsDot(s[j])

\* /trigger(.+?)(?:[terminators]|$)/ can match at i with a capture of k characters
AfterMatches(s, trigger, i, k) ==
    LET c == i + Len(trigger)
    IN  /\ At(s, i, trigger)
        /\ k >= 1
        /\ c + k - 1 <= Len(s)
        /\ AllDot(s, c, c + k - 1)
        /\ \/ c + k = Len(s) + 1
           \/ IsTerminator(s[c + k])

\* /(.+?)trigger/ can match at i with a capture of k characters
BeforeMatches(s, trigger, i, k) ==
    /\ i >= 1
    /\ k >= 1
    /\ i + k - 1 <= Len(s)
    /\ AllDot(s, i, i + k - 1)
    /\ At(s, i + k, trigger)

RuleMatches(s, rule, i, k) ==
    IF rule.capture = "after" THEN AfterMatches(s, rule.trigger, i, k)
    ELSE BeforeMatches(s, rule.trigger, i, k)

\* String.prototype.match with a non-global pattern: the leftmost start, and
\* there the shortest capture (the quantifier is lazy)
match(s, rule) ==
    LET starts == {i \in 1..Len(s) : \E k \in 1..Len(s) : RuleMatches(s, rule, i, k)}
    IN  IF starts = {} THEN [matched |-> FALSE, group |-> << >>]
        ELSE LET i == Min(starts)
                 k == Min({n \in 1..Len(s) : RuleMatches(s, rule, i, n)})
                 c == IF rule.capture = "after" THEN i + Len(rule.trigger) ELSE i
             IN  [matched |-> TRUE, group |-> SubSeq(s, c, c + k - 1)]

extractFoodDescriptionNoDetect(userMessage) ==
    LET hits == {p \in 1..Len(eatPatterns) :
                    LET m == match(userMessage, eatPatterns[p])
                    IN  m.matched /\ Truthy(m.group)}
    IN  IF hits # {}
        THEN trim(match(userMessage, eatPatterns[Min(hits)]).group)
        ELSE userMessage

extractFoodDescriptionLastRule(userMessage) ==
    LET hits == {p \in 1..Len(eatPatterns) :
                    LET m == match(userMessage, eatPatterns[p])
                    IN  m.matched /\ Truthy(m.group)}
    IN  IF hits # {}
        THEN trim(match(userMessage, eatPatterns[
                     CHOOSE p \in hits : \A q \in hits : q <= p]).group)
        ELSE IF detectFoodKeywords(userMessage) THEN userMessage
        ELSE << >>

\* the loop over eatPatterns: the first rule with a truthy capture returns
extractFoodDescription(userMessage) ==
    LET hits == {p \in 1..Len(eatPatterns) :
                    LET m == match(userMessage, eatPatterns[p])
                    IN  m.matched /\ Truthy(m.group)}
    IN  IF hits # {}
        THEN trim(match(userMessage, eatPatterns[Min(hits)]).group)
        ELSE IF detectFoodKeywords(userMessage) THEN userMessage
        ELSE << >>

-----------------------------------------------------------------------------
(* JavaScript values of the request and of the upstream bodies *)

Undefined == [t |-> "undefined"]
Str(v) == [t |-> "string", v |-> v]

\* history entries: two well-formed messages and one malformed entry
HistoryEntries ==
    { [role |-> "user", content |-> "h-user"],
      [role |-> "assistant", content |-> "h-assistant"],
      [role |-> "bogus"] }

WellFormedEntry(e) ==
    /\ DOMAIN e = {"role", "content"}
    /\ e.role \in {"system", "user", "assistant"}

Roles == {"supportive_friend", "nutritionist", "fitness_trainer",
          "coach", "constructor"}

MessageValues ==
    {Undefined, [t |-> "number"]} \cup {Str(m) : m \in SeqsUpTo(MsgAlphabet, MaxMsgLen)}

HistoryValues ==
    {Undefined, [t |-> "null"], Str("h")}
        \cup {[t |-> "array", v |-> h] : h \in SeqsUpTo(HistoryEntries, MaxHist)}

RoleValues == {Undefined, [t |-> "number"]} \cup {Str(r) : r \in Roles}

\* what request.json() can yield
Bodies ==
    { [kind |-> "undecodable"], [kind |-> "null"], [kind |-> "nonobject"] }
        \cup { [kind |-> "object", message |-> m, conversationHistory |-> h, role |-> r] :
                 m \in MessageValues, h \in HistoryValues, r \in RoleValues }

-----------------------------------------------------------------------------
(* Chat request assembler *)

systemPrompts ==
    [ supportive_friend |-> "prompt: supportive friend",
      nutritionist      |-> "prompt: nutritionist",
      fitness_trainer   |-> "prompt: fitness trainer" ]

\* property names every object literal inherits from Object.prototype
ObjectPrototypeKeys ==
    {"constructor", "toString", "toLocaleString", "valueOf", "hasOwnProperty",
     "isPrototypeOf", "propertyIsEnumerable", "__proto__"}

\* the property key a role value is converted to
RoleKey(role) ==
    IF role.t = "string" THEN role.v
    ELSE IF role.t = "number" THEN "5"
    ELSE "undefined"

\* systemPrompts[role]: own property, else inherited, else undefined
GetSystemPrompt(key) ==
    IF key \in DOMAIN systemPrompts THEN Str(systemPrompts[key])
    ELSE IF key \in ObjectPrototypeKeys THEN [t |-> "function", v |-> key]
    ELSE Undefined

\* systemPrompts[role] || systemPrompts.supportive_friend
ResolveSystemPrompt(role) ==
    LET own == GetSystemPrompt(RoleKey(role))
    IN  IF own.t = "undefined" THEN Str(systemPrompts.supportive_friend) ELSE own

AssembleMessagesNoHistory(role, history, userMessage) ==
    << [role |-> "system", content |-> ResolveSystemPrompt(role)] >>
        \o << [role |-> "user", content |-> userMessage] >>

AssembleMessages(role, history, userMessage) ==
    << [role |-> "system", content |-> ResolveSystemPrompt(role)] >>
        \o history
        \o << [role |-> "user", content |-> userMessage] >>

-----------------------------------------------------------------------------
(* Upstream outcomes *)

\* how the fetch of /chat/completions can end
ChatOutcomes ==
    { [kind |-> "reject"], [kind |-> "status"], [kind |-> "badjson"],
      [kind |-> "json", shape |-> "null"],
      [kind |-> "json", shape |-> "no_choices"],
      [kind |-> "json", shape |-> "empty_choices"],
      [kind |-> "json", shape |-> "no_message"] }
        \cup { [kind |-> "json", shape |-> "message", content |-> c] :
                 c \in {Undefined, Str("reply"), Str(""), [t |-> "parts", v |-> "reply"]} }

ImageEntries == { [url |-> "u1"], [url |-> "u2"], [b64_json |-> "b"] }

\* how the fetch of /images/generations can end
ImageOutcomes ==
    { [kind |-> "reject"], [kind |-> "status"], [kind |-> "badjson"],
      [kind |-> "json", shape |-> "null"],
      [kind |-> "json", shape |-> "no_data"],
      [kind |-> "json", shape |-> "data_string"] }
        \cup { [kind |-> "json", shape |-> "data", data |-> d] :
                 d \in SeqsUpTo(ImageEntries, 2) }

NoOutcome == [kind |-> "none"]

KeyMissingNever(key) == FALSE

\* !this.apiKey, the first statement of both invokers
KeyMissing(key) == key = ""

\* chatCompletion once the fetch has ended: the body as decoded, or a throw
chatCompletion(o) ==
    IF o.kind \in {"reject", "status", "badjson"} THEN [threw |-> TRUE]
    ELSE [threw |-> FALSE, data |-> o]

RECURSIVE CollectUrls(_)
CollectUrls(d) ==
    IF d = << >> THEN << >>
    ELSE IF "url" \in DOMAIN Head(d) THEN << Head(d).url >> \o CollectUrls(Tail(d))
    ELSE CollectUrls(Tail(d))

\* generateFoodImage once the fetch has ended: the URL list, or a throw
generateFoodImage(o) ==
    IF o.kind \in {"reject", "status", "badjson"} THEN [threw |-> TRUE, urls |-> << >>]
    ELSE IF o.shape \in {"null", "data_string"} THEN [threw |-> TRUE, urls |-> << >>]
    ELSE IF o.shape = "no_data" THEN [threw |-> FALSE, urls |-> << >>]
    ELSE [threw |-> FALSE, urls |-> CollectUrls(o.data)]

-----------------------------------------------------------------------------
(* Orchestrator: weightLossChat *)

ApologyTechnical == "apology: technical problem, try again later"
ApologyNoReply == "apology: cannot respond now"

NoResult == [state |-> "none"]
Returned(content, images) == [state |-> "returned", content |-> content, images |-> images]
Threw == [state |-> "threw"]

\* JSON.stringify of a message content that is not a string
JSONstringify(content) ==
    IF content.t = "parts"
    THEN Str("[{\"type\":\"text\",\"text\":\"" \o content.v \o "\"}]")
    ELSE Undefined

TextOf(content) ==
    IF content.t = "string" THEN content ELSE JSONstringify(content)

CatchChatErrorRethrow == Threw

\* the catch block of weightLossChat
CatchChatError == Returned(Str(ApologyTechnical), Undefined)

\* images.length > 0 ? images : undefined
ImagesField(images) ==
    IF Len(images) > 0 THEN [t |-> "array", v |-> images] ELSE Undefined

CatchImageErrorApology(reply) == Returned(Str(ApologyTechnical), Undefined)

\* the catch block around generateFoodImage: images stays []
CatchImageError(reply) == Returned(reply, ImagesField(<< >>))

ShouldGenerateImageAlways(userMessage) == TRUE

ShouldGenerateImageDetectOnly(userMessage) == detectFoodKeywords(userMessage)

\* foodDescription && detectFoodKeywords(userMessage)
ShouldGenerateImage(userMessage) ==
    /\ Truthy(extractFoodDescription(userMessage))
    /\ detectFoodKeywords(userMessage)

-----------------------------------------------------------------------------
(* Route handler POST /api/chat *)

Response400Ok(error) == [status |-> 200, error |-> error]

\* NextResponse.json({ error }, { status: 400 })
Response400(error) == [status |-> 400, error |-> error]

Response500 ==
    [status |-> 500, success |-> FALSE, error |-> "Failed to process chat request"]

Response200(res) ==
    [status |-> 200, success |-> TRUE, response |-> res.content, images |-> res.images]

RouteRespondStrict(res) ==
    IF res.state = "threw" \/ res.content = Str(ApologyTechnical)
    THEN Response500 ELSE Response200(res)

\* the success answer of POST, or the answer of its catch block
RouteRespond(res) ==
    IF res.state = "threw" THEN Response500 ELSE Response200(res)

\* the destructuring of the body, with its defaults
MessageOf(b) == IF b.kind = "object" THEN b.message ELSE Undefined

HistoryOf(b) ==
    IF b.kind = "object" /\ b.conversationHistory.t # "undefined"
    THEN b.conversationHistory
    ELSE [t |-> "array", v |-> << >>]

RoleOf(b) ==
    IF b.kind = "object" /\ b.role.t # "undefined" THEN b.role
    ELSE Str("supportive_friend")

\* !message || typeof message !== 'string'
MessageInvalid(message) ==
    \/ message.t # "string"
    \/ ~Truthy(message.v)

\* !Array.isArray(conversationHistory)
HistoryInvalid(history) == history.t # "array"
-----------------------------------------------------------------------------
(* One POST /api/chat request *)

Unset == [set |-> FALSE]
Set(v) == [set |-> TRUE, v |-> v]

\* no direct invoker call is modelled
InvokerIdle ==
    /\ invPc = "off"
    /\ invReturn = [state |-> "none"]

UIRoles == {"supportive_friend", "nutritionist", "fitness_trainer"}

\* the chat UI as mounted: one welcome message per role
UIMounted ==
    /\ currentRole = "supportive_friend"
    /\ isLoading = FALSE
    /\ input = << >>
    /\ allRoleMessages = [r \in UIRoles |-> << "welcome" >>]
    /\ pending = << >>

Init ==
    /\ apiKey \in {"", "key"}
    /\ body \in Bodies
    /\ pc = "received"
    /\ conversationHistory = << >>
    /\ messages = << >>
    /\ chatCalls = 0
    /\ chatFetches = 0
    /\ imageCalls = 0
    /\ imageFetches = 0
    /\ chatOutcome = NoOutcome
    /\ imageOutcome = NoOutcome
    /\ textContent = Undefined
    /\ foodDescription = << >>
    /\ result = NoResult
    /\ response = [status |-> 0]
    /\ text = << >>
    /\ detected = Unset
    /\ extracted = Unset
    /\ InvokerIdle
    /\ UIMounted

\* weightLossChat returns (or throws) and the route answers
Finish(res) ==
    /\ result' = res
    /\ response' = RouteRespond(res)
    /\ pc' = "done"

\* the route rejects the request before weightLossChat is called
Reject(resp) ==
    /\ response' = resp
    /\ pc' = "done"
    /\ UNCHANGED << conversationHistory, messages, chatCalls, chatFetches,
                    chatOutcome, result >>

\* POST up to the first await of a fetch: decode, validate, assemble, and
\* enter chatCompletion
POST_Receive ==
    /\ pc = "received"
    /\ IF body.kind \in {"undecodable", "null"}
       THEN Reject(Response500)
       ELSE IF MessageInvalid(MessageOf(body))
       THEN Reject(Response400("Invalid message parameter"))
       ELSE IF HistoryInvalid(HistoryOf(body))
       THEN Reject(Response400("Invalid conversationHistory parameter"))
       ELSE /\ conversationHistory' = HistoryOf(body).v
            /\ messages' = AssembleMessages(RoleOf(body), HistoryOf(body).v,
                                            MessageOf(body).v)
            /\ chatCalls' = chatCalls + 1
            /\ IF KeyMissing(apiKey)
               THEN /\ chatOutcome' = [kind |-> "nokey"]
                    /\ chatFetches' = chatFetches
                    /\ Finish(CatchChatError)
               ELSE /\ chatOutcome' = chatOutcome
                    /\ chatFetches' = chatFetches + 1
                    /\ pc' = "awaitChat"
                    /\ UNCHANGED << result, response >>
    /\ UNCHANGED << apiKey, body, imageCalls, imageFetches, imageOutcome,
                    textContent, foodDescription >>
    /\ UNCHANGED << classifierVars, invokerVars, uiVars >>

\* the completion fetch ends: weightLossChat handles the reply and, when the
\* classifier fires, enters generateFoodImage
ChatFetchReturns(o) ==
    /\ pc = "awaitChat"
    /\ chatOutcome' = o
    /\ LET r == chatCompletion(o)
           userMessage == MessageOf(body).v
       IN  IF r.threw \/ r.data.shape \in {"null", "no_message"}
           THEN /\ Finish(CatchChatError)
                /\ UNCHANGED << textContent, foodDescription, imageCalls,
                                imageFetches, imageOutcome >>
           ELSE IF r.data.shape \in {"no_choices", "empty_choices"}
           THEN /\ Finish(Returned(Str(ApologyNoReply), Undefined))
                /\ UNCHANGED << textContent, foodDescription, imageCalls,
                                imageFetches, imageOutcome >>
           ELSE /\ textContent' = TextOf(r.data.content)
                /\ IF ShouldGenerateImage(userMessage)
                   THEN /\ foodDescription' = extractFoodDescription(userMessage)
                        /\ imageCalls' = imageCalls + 1
                        /\ IF KeyMissing(apiKey)
                           THEN /\ imageOutcome' = [kind |-> "nokey"]
                                /\ imageFetches' = imageFetches
                                /\ Finish(CatchImageError(textContent'))
                           ELSE /\ imageOutcome' = imageOutcome
                                /\ imageFetches' = imageFetches + 1
                                /\ pc' = "awaitImage"
                                /\ UNCHANGED << result, response >>
                   ELSE /\ Finish(Returned(textContent', ImagesField(<< >>)))
                        /\ UNCHANGED << foodDescription, imageCalls,
                                        imageFetches, imageOutcome >>
    /\ UNCHANGED << apiKey, body, conversationHistory, messages, chatCalls,
                    chatFetches >>
    /\ UNCHANGED << classifierVars, invokerVars, uiVars >>

\* as ImageFetchReturns, but a failed image call is issued once more
ImageFetchReturnsRetry(o) ==
    /\ pc = "awaitImage"
    /\ imageOutcome' = o
    /\ LET g == generateFoodImage(o)
       IN  IF g.threw /\ imageFetches < 2
           THEN /\ imageCalls' = imageCalls + 1
                /\ imageFetches' = imageFetches + 1
                /\ UNCHANGED << pc, result, response >>
           ELSE /\ UNCHANGED << imageCalls, imageFetches >>
                /\ IF g.threw
                   THEN Finish(CatchImageError(textContent))
                   ELSE Finish(Returned(textContent, ImagesField(g.urls)))
    /\ UNCHANGED << apiKey, body, conversationHistory, messages, chatCalls,
                    chatFetches, chatOutcome, textContent, foodDescription >>
    /\ UNCHANGED << classifierVars, invokerVars, uiVars >>

\* the image fetch ends: weightLossChat returns the reply with the images
ImageFetchReturns(o) ==
    /\ pc = "awaitImage"
    /\ imageOutcome' = o
    /\ LET g == generateFoodImage(o)
       IN  IF g.threw
           THEN Finish(CatchImageError(textContent))
           ELSE Finish(Returned(textContent, ImagesField(g.urls)))
    /\ UNCHANGED << apiKey, body, conversationHistory, messages, chatCalls,
                    chatFetches, imageCalls, imageFetches, chatOutcome,
                    textContent, foodDescription >>
    /\ UNCHANGED << classifierVars, invokerVars, uiVars >>

Next ==
    \/ POST_Receive
    \/ \E o \in ChatOutcomes : ChatFetchReturns(o)
    \/ \E o \in ImageOutcomes : ImageFetchReturns(o)

Spec == Init /\ [][Next]_vars

-----------------------------------------------------------------------------
(* The classifier applied to every text up to MaxLen *)

\* "I want to eat" followed by the two characters of pizza
IWantToEatPizza ==
    << "I", "sp", "w", "a", "n", "t", "sp", "t", "o", "sp", "e", "a", "t",
       "sp", "pi", "sa" >>

SampleTexts == { IWantToEatPizza }

InitClassifier ==
    /\ text \in SeqsUpTo(Alphabet, MaxLen) \cup SampleTexts
    /\ detected = Unset
    /\ extracted = Unset
    /\ apiKey = ""
    /\ body = [kind |-> "none"]
    /\ pc = "idle"
    /\ conversationHistory = << >>
    /\ messages = << >>
    /\ chatCalls = 0
    /\ chatFetches = 0
    /\ imageCalls = 0
    /\ imageFetches = 0
    /\ chatOutcome = NoOutcome
    /\ imageOutcome = NoOutcome
    /\ textContent = Undefined
    /\ foodDescription = << >>
    /\ result = NoResult
    /\ response = [status |-> 0]
    /\ InvokerIdle
    /\ UIMounted

Detect ==
    /\ pc = "idle"
    /\ ~detected.set
    /\ detected' = Set(detectFoodKeywords(text))
    /\ UNCHANGED << text, extracted >>
    /\ UNCHANGED << routeVars, invokerVars, uiVars >>

Extract ==
    /\ pc = "idle"
    /\ ~extracted.set
    /\ extracted' = Set(extractFoodDescription(text))
    /\ UNCHANGED << text, detected >>
    /\ UNCHANGED << routeVars, invokerVars, uiVars >>

NextClassifier == Detect \/ Extract

SpecClassifier == InitClassifier /\ [][NextClassifier]_vars

-----------------------------------------------------------------------------
(* The two invokers called directly, one call per behaviour *)

InvokerThrew == [state |-> "threw"]
InvokerReturned(v) == [state |-> "returned", value |-> v]

InitInvokers ==
    /\ apiKey \in {"", "key"}
    /\ foodDescription \in SeqsUpTo(MsgAlphabet, MaxMsgLen)
    /\ messages \in {<< >>, << [role |-> "user", content |-> <<"x">>] >>}
    /\ invPc = "idle"
    /\ invReturn = [state |-> "none"]
    /\ body = [kind |-> "none"]
    /\ pc = "idle"
    /\ conversationHistory = << >>
    /\ chatCalls = 0
    /\ chatFetches = 0
    /\ imageCalls = 0
    /\ imageFetches = 0
    /\ chatOutcome = NoOutcome
    /\ imageOutcome = NoOutcome
    /\ textContent = Undefined
    /\ result = NoResult
    /\ response = [status |-> 0]
    /\ text = << >>
    /\ detected = Unset
    /\ extracted = Unset
    /\ UIMounted

\* chatCompletion(request) up to the await of its fetch
ChatCompletion_Call ==
    /\ invPc = "idle"
    /\ chatCalls' = chatCalls + 1
    /\ IF KeyMissing(apiKey)
       THEN /\ chatOutcome' = [kind |-> "nokey"]
            /\ invReturn' = InvokerThrew
            /\ invPc' = "returned"
            /\ UNCHANGED chatFetches
       ELSE /\ chatFetches' = chatFetches + 1
            /\ invPc' = "chatFetch"
            /\ UNCHANGED << chatOutcome, invReturn >>
    /\ UNCHANGED << apiKey, body, pc, conversationHistory, messages,
                    imageCalls, imageFetches, imageOutcome, textContent,
                    foodDescription, result, response >>
    /\ UNCHANGED << classifierVars, uiVars >>

\* chatCompletion from the end of its fetch to its return or throw
ChatCompletion_FetchReturns(o) ==
    /\ invPc = "chatFetch"
    /\ chatOutcome' = o
    /\ invReturn' = IF chatCompletion(o).threw THEN InvokerThrew
                    ELSE InvokerReturned(chatCompletion(o).data)
    /\ invPc' = "returned"
    /\ UNCHANGED << apiKey, body, pc, conversationHistory, messages, chatCalls,
                    chatFetches, imageCalls, imageFetches, imageOutcome,
                    textContent, foodDescription, result, response >>
    /\ UNCHANGED << classifierVars, uiVars >>

\* generateFoodImage(foodDescription) up to the await of its fetch
GenerateFoodImage_Call ==
    /\ invPc = "idle"
    /\ imageCalls' = imageCalls + 1
    /\ IF KeyMissing(apiKey)
       THEN /\ imageOutcome' = [kind |-> "nokey"]
            /\ invReturn' = InvokerThrew
            /\ invPc' = "returned"
            /\ UNCHANGED imageFetches
       ELSE /\ imageFetches' = imageFetches + 1
            /\ invPc' = "imageFetch"
            /\ UNCHANGED << imageOutcome, invReturn >>
    /\ UNCHANGED << apiKey, body, pc, conversationHistory, messages, chatCalls,
                    chatFetches, chatOutcome, textContent, foodDescription,
                    result, response >>
    /\ UNCHANGED << classifierVars, uiVars >>

\* generateFoodImage from the end of its fetch to its return or throw
GenerateFoodImage_FetchReturns(o) ==
    /\ invPc = "imageFetch"
    /\ imageOutcome' = o
    /\ invReturn' = IF generateFoodImage(o).threw THEN InvokerThrew
                    ELSE InvokerReturned(generateFoodImage(o).urls)
    /\ invPc' = "returned"
    /\ UNCHANGED << apiKey, body, pc, conversationHistory, messages, chatCalls,
                    chatFetches, chatOutcome, imageCalls, imageFetches,
                    textContent, foodDescription, result, response >>
    /\ UNCHANGED << classifierVars, uiVars >>

NextInvokers ==
    \/ ChatCompletion_Call
    \/ \E o \in ChatOutcomes : ChatCompletion_FetchReturns(o)
    \/ GenerateFoodImage_Call
    \/ \E o \in ImageOutcomes : GenerateFoodImage_FetchReturns(o)

SpecInvokers == InitInvokers /\ [][NextInvokers]_vars

-----------------------------------------------------------------------------
(* The chat UI: ChatInterface with handleSend and handleRoleChange.  One    *)
(* action is one event handler, or the continuation of handleSend after its *)
(* awaits, together with the render that applies its state updates.         *)

\* what can be in the input box: nothing, a blank, a word
UIInputs == {<< >>, <<"sp">>, <<"x">>}

\* how the fetch of /api/chat and the decoding of its answer can end
UIOutcomes == {"reject", "badjson", "not_ok", "reply", "invalid"}

InitUI ==
    /\ UIMounted
    /\ InvokerIdle
    /\ apiKey = ""
    /\ body = [kind |-> "none"]
    /\ pc = "idle"
    /\ conversationHistory = << >>
    /\ messages = << >>
    /\ chatCalls = 0
    /\ chatFetches = 0
    /\ imageCalls = 0
    /\ imageFetches = 0
    /\ chatOutcome = NoOutcome
    /\ imageOutcome = NoOutcome
    /\ textContent = Undefined
    /\ foodDescription = << >>
    /\ result = NoResult
    /\ response = [status |-> 0]
    /\ text = << >>
    /\ detected = Unset
    /\ extracted = Unset

\* the user messages of all conversations
SendsStarted ==
    LET UserCount(r) ==
            Cardinality({k \in 1..Len(allRoleMessages[r]) : allRoleMessages[r][k] = "user"})
    IN  UserCount("supportive_friend") + UserCount("nutritionist")
            + UserCount("fitness_trainer")

\* onChange of the input box, handleQuickReply
SetInput(v) ==
    /\ input' = v
    /\ UNCHANGED << currentRole, isLoading, allRoleMessages, pending >>
    /\ UNCHANGED << routeVars, classifierVars, invokerVars >>

HandleRoleChange(newRole) ==
    /\ currentRole' = newRole
    /\ UNCHANGED << isLoading, input, allRoleMessages, pending >>
    /\ UNCHANGED << routeVars, classifierVars, invokerVars >>

SendBlockedInputOnly(in, loading) == ~Truthy(trim(in))

\* !input.trim() || isLoading
SendBlocked(in, loading) == ~Truthy(trim(in)) \/ loading

\* handleSend up to the await of its fetch
HandleSend ==
    /\ SendsStarted < MaxSends
    /\ ~SendBlocked(input, isLoading)
    /\ allRoleMessages' = [allRoleMessages EXCEPT ![currentRole] = Append(@, "user")]
    /\ input' = << >>
    /\ isLoading' = TRUE
    /\ pending' = Append(pending, [role |-> currentRole])
    /\ UNCHANGED currentRole
    /\ UNCHANGED << routeVars, classifierVars, invokerVars >>

\* handleSend from the end of its fetch: the reply or the error message goes
\* to the role captured when the send started, then finally clears isLoading
ResponseArrives(i, o) ==
    /\ i \in 1..Len(pending)
    /\ LET role == pending[i].role
           appended == IF o = "reply" THEN "assistant" ELSE "error"
       IN  allRoleMessages' = [allRoleMessages EXCEPT ![role] = Append(@, appended)]
    /\ isLoading' = FALSE
    /\ pending' = SubSeq(pending, 1, i - 1) \o SubSeq(pending, i + 1, Len(pending))
    /\ UNCHANGED << currentRole, input >>
    /\ UNCHANGED << routeVars, classifierVars, invokerVars >>

SomeResponseArrives ==
    \E i \in 1..Len(pending) : \E o \in UIOutcomes : ResponseArrives(i, o)

NextUI ==
    \/ \E v \in UIInputs : SetInput(v)
    \/ \E r \in UIRoles : HandleRoleChange(r)
    \/ HandleSend
    \/ SomeResponseArrives

\* every fetch of /api/chat settles, and its continuation then runs
SpecUI == InitUI /\ [][NextUI]_vars /\ WF_vars(SomeResponseArrives)

-----------------------------------------------------------------------------
(* Properties *)

\* the request carries a non-empty string message
HasValidMessage ==
    /\ body.kind = "object"
    /\ body.message.t = "string"
    /\ body.message.v # << >>

\* ... and a history that is an array (or none, which defaults to [])
IsValidTurn ==
    /\ HasValidMessage
    /\ body.conversationHistory.t \in {"undefined", "array"}

\* the completion call of this turn failed: no key, network error, non-2xx
\* status or an undecodable body
CompletionFailed == chatOutcome.kind \in {"nokey", "reject", "status", "badjson"}

\* the completion call of this turn produced a first choice with a message
CompletionSucceeded == chatOutcome.kind = "json" /\ chatOutcome.shape = "message"

\* the image call of this turn was made and failed
ImageFailed ==
    /\ imageOutcome.kind # "none"
    /\ \/ imageOutcome.kind = "nokey"
       \/ generateFoodImage(imageOutcome).threw

\* no keyword of the list occurs in s, case-folded
NoKeywordOccurs(s) ==
    \A k \in 1..Len(foodKeywords) : \A i \in 1..Len(s) :
        ~At(toLowerCase(s), i, toLowerCase(foodKeywords[k]))

\* C1: when the completion call of a valid turn fails, weightLossChat returns
\* the canned apology with no images, does not throw, and generateFoodImage
\* is not called.
C1_ChatFailureApology ==
    (pc = "done" /\ IsValidTurn /\ CompletionFailed) =>
        /\ result = Returned(Str(ApologyTechnical), Undefined)
        /\ imageCalls = 0
        /\ imageFetches = 0

C1_Witness ==
    /\ pc = "done"
    /\ IsValidTurn
    /\ chatOutcome.kind = "status"
    /\ detectFoodKeywords(body.message.v)
    /\ result.state = "returned"

\* C2: when the completion call succeeds and the image call fails,
\* weightLossChat returns the completion's reply text unchanged and no images
\* (the images field is left out), and does not throw.
C2_ImageFailureKeepsReply ==
    (pc = "done" /\ CompletionSucceeded /\ ImageFailed) =>
        /\ result.state = "returned"
        /\ chatOutcome.content.t = "string" => result.content = chatOutcome.content
        /\ result.content = TextOf(chatOutcome.content)
        /\ result.images = Undefined

C2_Witness ==
    /\ pc = "done"
    /\ CompletionSucceeded
    /\ imageOutcome.kind = "reject"
    /\ result.state = "returned"
    /\ result.content = Str("reply")

\* C3: for a user message without any food keyword, generateFoodImage is
\* never called and no image request is issued, whatever the completion did.
C3_NoKeywordNoImageCall ==
    (HasValidMessage /\ NoKeywordOccurs(body.message.v)) =>
        /\ imageCalls = 0
        /\ imageFetches = 0
        /\ imageOutcome = NoOutcome

C3_Witness ==
    /\ pc = "done"
    /\ HasValidMessage
    /\ NoKeywordOccurs(body.message.v)
    /\ CompletionSucceeded
    /\ result.state = "returned"
    /\ result.content = Str("reply")

\* C4: a request with a valid message and an array history is answered with
\* status 200 and success: true, whatever the two upstream calls do.
C4_ValidTurnAnswers200 ==
    (pc = "done" /\ IsValidTurn) =>
        /\ response.status = 200
        /\ response.success = TRUE
        /\ result.state = "returned"

C4_Witness ==
    /\ pc = "done"
    /\ IsValidTurn
    /\ chatOutcome.kind = "reject"
    /\ response.status = 200

\* C5: a request whose body is an object with message omitted or not a string
\* is answered with status 400 and an error field, and no upstream call is made.
C5_BadMessageRejected ==
    (body.kind = "object" /\ body.message.t # "string") =>
        /\ chatCalls = 0 /\ chatFetches = 0
        /\ imageCalls = 0 /\ imageFetches = 0
        /\ pc \in {"received", "done"}
        /\ pc = "done" =>
              /\ response.status = 400
              /\ "error" \in DOMAIN response

C5_Witness ==
    /\ pc = "done"
    /\ body.kind = "object"
    /\ body.message.t = "number"
    /\ response.status = 400

\* the request is malformed input: the body cannot be decoded or is not an
\* object, the message is not a non-empty string, or the history is not a
\* sequence of well-formed messages
MalformedInput ==
    \/ body.kind # "object"
    \/ body.message.t # "string"
    \/ body.message.v = << >>
    \/ body.conversationHistory.t \notin {"undefined", "array"}
    \/ /\ body.conversationHistory.t = "array"
       /\ \E i \in 1..Len(body.conversationHistory.v) :
             ~WellFormedEntry(body.conversationHistory.v[i])

\* C6: every request with malformed input is rejected with status 400 and
\* never reaches the upstream calls.
C6_MalformedInputRejected ==
    MalformedInput =>
        /\ chatCalls = 0
        /\ pc = "done" => response.status = 400

\* C7: whenever the completion call succeeds and detectFoodKeywords fires on
\* the user message, generateFoodImage is called for that turn.
C7_DetectImpliesImageCall ==
    (pc = "done" /\ CompletionSucceeded /\ detectFoodKeywords(body.message.v)) =>
        imageCalls = 1

\* C8: the list sent to the completion endpoint has history.length + 2
\* entries: the system message, the history entries in their order, the new
\* user message; the history array itself is left as it was.
C8_AssembledMessages ==
    chatCalls > 0 =>
        LET history == HistoryOf(body).v
            n == Len(history)
        IN  /\ Len(messages) = n + 2
            /\ messages[1].role = "system"
            /\ \A i \in 1..n : messages[i + 1] = history[i]
            /\ messages[n + 2] = [role |-> "user", content |-> body.message.v]
            /\ conversationHistory = history

C8_Witness ==
    /\ chatCalls > 0
    /\ Len(messages) = 4
    /\ messages[2] # messages[3]
    /\ pc = "done"

\* C9: for every role that is not one of the three known ones, the system
\* message carries the supportive-friend prompt.
C9_UnknownRoleFallsBack ==
    (chatCalls > 0 /\ RoleKey(RoleOf(body)) \notin DOMAIN systemPrompts) =>
        messages[1].content = Str(systemPrompts.supportive_friend)

\* C10: for a text in which no keyword occurs, detectFoodKeywords returns
\* false, extractFoodDescription returns the empty string, and no extraction
\* rule matches.
C10_NoKeywordNoExtraction ==
    NoKeywordOccurs(text) =>
        /\ detected.set => detected.v = FALSE
        /\ extracted.set => extracted.v = << >>
        /\ \A p \in 1..Len(eatPatterns) : ~match(text, eatPatterns[p]).matched

C10_Witness ==
    /\ text = <<"xiang", "hao", "le">>
    /\ NoKeywordOccurs(text)
    /\ detected.set
    /\ extracted.set

\* C11: extractFoodDescription returns the trimmed capture of the first rule
\* in list order that matches, whatever later rules match; when no rule
\* matches and a keyword is detected it returns the text verbatim.
C11_FirstRuleWins ==
    extracted.set =>
        /\ \A p \in 1..Len(eatPatterns) :
              ( /\ match(text, eatPatterns[p]).matched
                /\ \A q \in 1..(p - 1) : ~match(text, eatPatterns[q]).matched )
              => extracted.v = trim(match(text, eatPatterns[p]).group)
        /\ ( /\ \A p \in 1..Len(eatPatterns) : ~match(text, eatPatterns[p]).matched
             /\ detectFoodKeywords(text) )
           => extracted.v = text

\* rules 2 and 3 both match, with different captures
C11_Witness ==
    /\ text = <<"chi", "le", "x">>
    /\ match(text, eatPatterns[2]).group = <<"x">>
    /\ match(text, eatPatterns[3]).group = <<"le", "x">>
    /\ extracted = Set(<<"x">>)

\* C12 as stated: for "I want to eat" + pizza, detect is true and extract
\* returns just the two characters of pizza.
C12_EnglishTriggerCaptures ==
    text = IWantToEatPizza =>
        /\ detected.set => detected.v = TRUE
        /\ extracted.set => extracted.v = <<"pi", "sa">>

\* C12 amended: for "I want to eat" + pizza, detect is true and extract
\* returns the whole message verbatim, since no rule has an English trigger.
C12_EnglishMessageVerbatim ==
    text = IWantToEatPizza =>
        /\ detected.set => detected.v = TRUE
        /\ extracted.set => extracted.v = IWantToEatPizza
        /\ \A p \in 1..Len(eatPatterns) : ~match(text, eatPatterns[p]).matched

C12_Witness ==
    /\ text = IWantToEatPizza
    /\ detected = Set(TRUE)
    /\ extracted = Set(IWantToEatPizza)

\* C13: with the API key unset, a call of either invoker throws at once and
\* no request is ever sent to either endpoint.
C13_NoKeyNoFetch ==
    apiKey = "" =>
        /\ chatFetches = 0
        /\ imageFetches = 0
        /\ invPc \in {"idle", "returned"}
        /\ invPc = "returned" => invReturn = InvokerThrew

C13_Witness ==
    /\ apiKey = ""
    /\ imageCalls = 1
    /\ imageOutcome.kind = "nokey"
    /\ invReturn = InvokerThrew

\* a 2xx image body without a data array: null, {} or a data that is a string
InvalidImageBody ==
    /\ imageOutcome.kind = "json"
    /\ imageOutcome.shape \in {"null", "no_data", "data_string"}

\* C14: generateFoodImage fails on every 2xx body without a data array; it
\* never returns an empty URL list for one.
C14_InvalidImageBodyFails ==
    (invPc = "returned" /\ InvalidImageBody) => invReturn = InvokerThrew

\* a 2xx completion body without a first choice that carries a message
InvalidChatBody ==
    /\ chatOutcome.kind = "json"
    /\ chatOutcome.shape \in {"null", "no_choices", "empty_choices", "no_message"}

\* C16: chatCompletion fails on every 2xx body that lacks the expected shape;
\* it never returns one as a successful completion.
C16_InvalidChatBodyFails ==
    (invPc = "returned" /\ InvalidChatBody) => invReturn = InvokerThrew

\* C15: in one chat turn each endpoint is requested at most once, the image
\* call starts only after the completion call has returned a body, and a
\* failed call is not issued again.
C15_SequentialAtMostOnce ==
    /\ chatCalls <= 1 /\ chatFetches <= 1
    /\ imageCalls <= 1 /\ imageFetches <= 1
    /\ imageFetches <= imageCalls
    /\ imageCalls > 0 => (chatFetches = 1 /\ chatOutcome.kind = "json")
    /\ pc \in {"received", "awaitChat"} => (imageCalls = 0 /\ imageFetches = 0)
    /\ pc = "received" => (chatCalls = 0 /\ chatFetches = 0)

\* both endpoints were requested, and the image call failed
C15_Witness ==
    /\ pc = "done"
    /\ chatFetches = 1
    /\ imageFetches = 1
    /\ imageOutcome.kind = "reject"
    /\ result.state = "returned"

\* C17: generateFoodImage is only ever called with a non-empty description,
\* in a turn whose completion call returned a first choice.
C17_ImageCallHasDescription ==
    imageCalls > 0 =>
        /\ foodDescription # << >>
        /\ CompletionSucceeded

C17_Witness ==
    /\ pc = "awaitImage"
    /\ imageCalls = 1
    /\ body.message.v = <<"chi", "x">>
    /\ foodDescription = <<"x">>

\* the replies and error messages of a conversation
AssistantCount(r) ==
    Cardinality({k \in 1..Len(allRoleMessages[r]) :
                    allRoleMessages[r][k] \in {"assistant", "error"}})

\* after the welcome message a conversation alternates user message and
\* answer, and ends with a user message exactly while its send is in flight
Alternates(r) ==
    LET conv == allRoleMessages[r]
    IN  /\ conv[1] = "welcome"
        /\ \A k \in 2..Len(conv) :
              IF k % 2 = 0 THEN conv[k] = "user"
              ELSE conv[k] \in {"assistant", "error"}
        /\ (Len(conv) % 2 = 0) <=> (pending # << >> /\ pending[1].role = r)

C18_OneInFlight ==
    /\ Len(pending) <= 1
    /\ isLoading <=> (Len(pending) = 1)
    /\ \A r \in UIRoles : Alternates(r)

\* C18: at most one /api/chat request is in flight, and every started send
\* leads to isLoading = false with exactly one more assistant message in the
\* conversation of the role that was selected when the send started.
C18_SendCompletesOnce ==
    /\ []C18_OneInFlight
    /\ \A r \in UIRoles : \A n \in 0..MaxSends :
          (isLoading /\ pending # << >> /\ pending[1].role = r /\ AssistantCount(r) = n)
              ~> (~isLoading /\ AssistantCount(r) = n + 1)

\* a second send is in flight for the first role after the role was switched
C18_Witness ==
    /\ isLoading
    /\ pending = << [role |-> "supportive_friend"] >>
    /\ currentRole = "nutritionist"
    /\ allRoleMessages["supportive_friend"] = <<"welcome", "user", "error", "user">>

====
